---- MODULE Spec2Model ----
(***************************************************************************)
(* Model of example/cell/power_saving/cell_power_saving_3gpp_main.c: the   *)
(* 3GPP power-saving example.  The main task runs the body of              *)
(* exampleCellPowerSaving3gpp statement by statement; the agreement        *)
(* callback() runs in the collaborator's context and interleaves with it.  *)
(***************************************************************************)
EXTENDS Integers, Sequences, FiniteSets, TLC

VARIABLES
    pc,                  \* position of the main task in exampleCellPowerSaving3gpp
    onMyRat,             \* bool onMyRat (line 196)
    x,                   \* int32_t x (line 197)
    g3gppPowerSavingSet, \* static volatile bool g3gppPowerSavingSet (line 161)
    registered,          \* callback() is registered with the cellular instance
    inProgress,          \* collaborator calls on the handle that have not returned
    calls,               \* history: collaborator calls and outcome reports, in order
    cbLog,               \* history: the reports callback() was invoked with
    latchSetAt,          \* history: where the main task was when the latch was set
    assertFailed,        \* EXAMPLE_FINAL_STATE's assertion was evaluated and failed
    request,             \* the build's ACTIVE_TIME_SECONDS and PERIODIC_WAKEUP_SECONDS
    returns              \* history: what the collaborator's calls returned

vars == <<pc, onMyRat, x, g3gppPowerSavingSet, registered, inProgress, calls,
          cbLog, latchSetAt, assertFailed, request, returns>>

----------------------------------------------------------------------------
(* Compile-time macros. *)

(* ACTIVE_TIME_SECONDS and PERIODIC_WAKEUP_SECONDS are #ifndef defaults a  *)
(* build may override: a run is of one build, with one requested pair.     *)
DefaultActiveTimeSeconds == 60

DefaultPeriodicWakeupSeconds == 14400

Requested(a, p) == [activeTimeSeconds |-> a, periodicWakeupSeconds |-> p]

DefaultRequest == Requested(DefaultActiveTimeSeconds, DefaultPeriodicWakeupSeconds)

Requests == {DefaultRequest, Requested(90, 16200)}

ACTIVE_TIME_SECONDS == request.activeTimeSeconds

PERIODIC_WAKEUP_SECONDS == request.periodicWakeupSeconds

MY_RAT == "CATM1"

WaitLimit == 30

(* Bound of the model: how many distinct reports the network delivers. *)
MaxCallbacks == 2

(* What the collaborator may return. *)
Rats == {"CATM1", "NB1", "GSM"}

ErrorCodes == {-1, -4}

RequestResults == {0} \cup ErrorCodes

(* The reports the network may deliver to callback(): the request itself, a  *)
(* rounded-up agreement, either timer below the request, power saving off.  *)
Report(on, a, p) == [onNotOff |-> on, activeTimeSeconds |-> a, periodicWakeupSeconds |-> p]

Reports ==
    {Report(TRUE, 60, 14400), Report(TRUE, 90, 16200),
     Report(TRUE, 59, 16200), Report(TRUE, 90, 14399),
     Report(FALSE, 60, 14400), Report(FALSE, 90, 16200)}

NotSet == [phase |-> "never", cycle |-> 0, during |-> {}]

----------------------------------------------------------------------------
(* Helpers on the call history. *)

Count(s, e) == Cardinality({i \in DOMAIN s : s[i] = e})

First(s, e) == LET at == {i \in DOMAIN s : s[i] = e}
               IN  IF at = {} THEN 0 ELSE CHOOSE i \in at : \A j \in at : i <= j

Called(op) == calls' = Append(calls, op)

Called2(op1, op2) == calls' = calls \o <<op1, op2>>

Returned(what) == returns' = returns \cup {what}

----------------------------------------------------------------------------
(* callback(), lines 169-184. *)

QualifiesStrict(onNotOff, activeTimeSeconds, periodicWakeupSeconds) ==
    /\ onNotOff
    /\ activeTimeSeconds > ACTIVE_TIME_SECONDS
    /\ periodicWakeupSeconds > PERIODIC_WAKEUP_SECONDS

QualifiesIgnoringOff(onNotOff, activeTimeSeconds, periodicWakeupSeconds) ==
    /\ activeTimeSeconds >= ACTIVE_TIME_SECONDS
    /\ periodicWakeupSeconds >= PERIODIC_WAKEUP_SECONDS

Qualifies(onNotOff, activeTimeSeconds, periodicWakeupSeconds) ==
    /\ onNotOff
    /\ activeTimeSeconds >= ACTIVE_TIME_SECONDS
    /\ periodicWakeupSeconds >= PERIODIC_WAKEUP_SECONDS

(* Where the main task is with respect to the wait loop, and the suspend    *)
(* cycle it is in: k once k blocks are done, k + 1 during a block.          *)
BeforeWaitPcs ==
    {"init", "add", "setCallback", "getRat", "setRatRank", "checkRat", "request",
     "rebootIsRequired", "reboot", "rebootWait", "networkUp", "networkUpWait"}

WaitPhase ==
    CASE pc \in BeforeWaitPcs -> "before"
      [] pc \in {"waitLoop", "taskBlock"} -> "wait"
      [] pc = "report" -> "afterWait"
      [] OTHER -> "afterReport"

WaitCycle ==
    CASE pc = "waitLoop" -> x
      [] pc = "taskBlock" -> x + 1
      [] OTHER -> 0

CallbackAssigns(onNotOff, activeTimeSeconds, periodicWakeupSeconds) ==
    /\ registered
    /\ Cardinality(cbLog) < MaxCallbacks
    /\ cbLog' = cbLog \cup {Report(onNotOff, activeTimeSeconds, periodicWakeupSeconds)}
    /\ g3gppPowerSavingSet' =
          Qualifies(onNotOff, activeTimeSeconds, periodicWakeupSeconds)
    /\ latchSetAt' = IF ~g3gppPowerSavingSet /\ g3gppPowerSavingSet'
                     THEN [phase |-> WaitPhase, cycle |-> WaitCycle,
                           during |-> inProgress]
                     ELSE latchSetAt
    /\ UNCHANGED <<pc, onMyRat, x, registered, inProgress, calls, assertFailed,
                   request, returns>>

Callback(onNotOff, activeTimeSeconds, periodicWakeupSeconds) ==
    /\ registered
    /\ Cardinality(cbLog) < MaxCallbacks
    /\ cbLog' = cbLog \cup {Report(onNotOff, activeTimeSeconds, periodicWakeupSeconds)}
    /\ g3gppPowerSavingSet' =
          IF Qualifies(onNotOff, activeTimeSeconds, periodicWakeupSeconds)
          THEN TRUE ELSE g3gppPowerSavingSet
    /\ latchSetAt' = IF ~g3gppPowerSavingSet /\ g3gppPowerSavingSet'
                     THEN [phase |-> WaitPhase, cycle |-> WaitCycle,
                           during |-> inProgress]
                     ELSE latchSetAt
    /\ UNCHANGED <<pc, onMyRat, x, registered, inProgress, calls, assertFailed,
                   request, returns>>

CallbackFires ==
    \E r \in Reports :
        Callback(r.onNotOff, r.activeTimeSeconds, r.periodicWakeupSeconds)

----------------------------------------------------------------------------
(* exampleCellPowerSaving3gpp, lines 193-292. *)

Init ==
    /\ pc = "init"
    /\ onMyRat = TRUE
    /\ x = -1
    /\ g3gppPowerSavingSet = FALSE
    /\ registered = FALSE
    /\ inProgress = {}
    /\ calls = <<>>
    /\ cbLog = {}
    /\ latchSetAt = NotSet
    /\ assertFailed = FALSE
    /\ request \in Requests
    /\ returns = {}

(* uPortInit(); uNetworkInit(); *)
PortAndNetworkInit ==
    /\ pc = "init"
    /\ pc' = "add"
    /\ Called2("uPortInit", "uNetworkInit")
    /\ UNCHANGED <<onMyRat, x, g3gppPowerSavingSet, registered, inProgress,
                   cbLog, latchSetAt, assertFailed, request, returns>>

(* networkHandle = uNetworkAdd(U_NETWORK_TYPE_CELL, &gConfigCell); *)
NetworkAddSkipsCallback ==
    /\ pc = "add"
    /\ pc' = "getRat"
    /\ Called("uNetworkAdd")
    /\ UNCHANGED <<onMyRat, x, g3gppPowerSavingSet, registered, inProgress,
                   cbLog, latchSetAt, assertFailed, request, returns>>

NetworkAdd ==
    /\ pc = "add"
    /\ pc' = "setCallback"
    /\ Called("uNetworkAdd")
    /\ UNCHANGED <<onMyRat, x, g3gppPowerSavingSet, registered, inProgress,
                   cbLog, latchSetAt, assertFailed, request, returns>>

(* uCellPwrSet3gppPowerSavingCallback(networkHandle, callback, NULL); *)
SetCallback ==
    /\ pc = "setCallback"
    /\ pc' = "getRat"
    /\ registered' = TRUE
    /\ Called("uCellPwrSet3gppPowerSavingCallback")
    /\ UNCHANGED <<onMyRat, x, g3gppPowerSavingSet, inProgress,
                   cbLog, latchSetAt, assertFailed, request, returns>>

(* if (uCellCfgGetRat(networkHandle, 0) != MY_RAT) *)
GetRatAlwaysSets ==
    /\ pc = "getRat"
    /\ pc' = "setRatRank"
    /\ \E rat \in Rats :
          Returned(IF rat # MY_RAT THEN "uCellCfgGetRat:other"
                                  ELSE "uCellCfgGetRat:MY_RAT")
    /\ Called("uCellCfgGetRat")
    /\ UNCHANGED <<onMyRat, x, g3gppPowerSavingSet, registered, inProgress,
                   cbLog, latchSetAt, assertFailed, request>>

GetRat ==
    /\ pc = "getRat"
    /\ \E rat \in Rats :
          IF rat # MY_RAT
          THEN pc' = "setRatRank" /\ Returned("uCellCfgGetRat:other")
          ELSE pc' = "checkRat" /\ Returned("uCellCfgGetRat:MY_RAT")
    /\ Called("uCellCfgGetRat")
    /\ UNCHANGED <<onMyRat, x, g3gppPowerSavingSet, registered, inProgress,
                   cbLog, latchSetAt, assertFailed, request>>

(* if (uCellCfgSetRatRank(networkHandle, MY_RAT, 0) != 0) onMyRat = false; *)
SetRatRank ==
    /\ pc = "setRatRank"
    /\ pc' = "checkRat"
    /\ \E result \in {0} \cup ErrorCodes :
          /\ onMyRat' = IF result # 0 THEN FALSE ELSE onMyRat
          /\ Returned(IF result = 0 THEN "uCellCfgSetRatRank:0"
                                   ELSE "uCellCfgSetRatRank:error")
    /\ Called("uCellCfgSetRatRank")
    /\ UNCHANGED <<x, g3gppPowerSavingSet, registered, inProgress,
                   cbLog, latchSetAt, assertFailed, request>>

(* if (onMyRat) ... else uPortLog("### Unable to set primary RAT to %d!\n") *)
ProceedAlways(onRat) == TRUE

ProceedToRequest(onRat) == onRat

CheckOnMyRat ==
    /\ pc = "checkRat"
    /\ IF ProceedToRequest(onMyRat)
       THEN pc' = "request" /\ UNCHANGED calls
       ELSE pc' = "deinit" /\ Called("uPortLog:UnableToSetPrimaryRat")
    /\ UNCHANGED <<onMyRat, x, g3gppPowerSavingSet, registered, inProgress,
                   cbLog, latchSetAt, assertFailed, request, returns>>

(* x = uCellPwrSetRequested3gppPowerSaving(...); if (x == 0) ... else      *)
(* uPortLog("### 3GPP power saving is not supported ...")                  *)
RequestAcceptedOrError(result) == result <= 0

RequestAccepted(result) == result = 0

RequestPowerSaving ==
    /\ pc = "request"
    /\ \E result \in RequestResults :
          /\ x' = result
          /\ Returned(IF result = 0 THEN "uCellPwrSetRequested3gppPowerSaving:0"
                                   ELSE "uCellPwrSetRequested3gppPowerSaving:error")
          /\ IF RequestAccepted(result)
             THEN /\ pc' = "rebootIsRequired"
                  /\ Called("uCellPwrSetRequested3gppPowerSaving")
             ELSE /\ pc' = "deinit"
                  /\ Called2("uCellPwrSetRequested3gppPowerSaving",
                             "uPortLog:NotSupported")
    /\ UNCHANGED <<onMyRat, g3gppPowerSavingSet, registered, inProgress,
                   cbLog, latchSetAt, assertFailed, request>>

(* if (uCellPwrRebootIsRequired(networkHandle)) *)
RebootIsRequiredIgnored ==
    /\ pc = "rebootIsRequired"
    /\ pc' = "networkUp"
    /\ \E required \in BOOLEAN :
          Returned(IF required THEN "uCellPwrRebootIsRequired:true"
                               ELSE "uCellPwrRebootIsRequired:false")
    /\ Called("uCellPwrRebootIsRequired")
    /\ UNCHANGED <<onMyRat, x, g3gppPowerSavingSet, registered, inProgress,
                   cbLog, latchSetAt, assertFailed, request>>

RebootIsRequired ==
    /\ pc = "rebootIsRequired"
    /\ \E required \in BOOLEAN :
          IF required
          THEN pc' = "reboot" /\ Returned("uCellPwrRebootIsRequired:true")
          ELSE pc' = "networkUp" /\ Returned("uCellPwrRebootIsRequired:false")
    /\ Called("uCellPwrRebootIsRequired")
    /\ UNCHANGED <<onMyRat, x, g3gppPowerSavingSet, registered, inProgress,
                   cbLog, latchSetAt, assertFailed, request>>

(* uCellPwrReboot(networkHandle, NULL): the call, then its return *)
RebootCallNotAwaited ==
    /\ pc = "reboot"
    /\ pc' = "networkUp"
    /\ inProgress' = inProgress \cup {"uCellPwrReboot"}
    /\ Called("uCellPwrReboot")
    /\ UNCHANGED <<onMyRat, x, g3gppPowerSavingSet, registered,
                   cbLog, latchSetAt, assertFailed, request, returns>>

RebootCall ==
    /\ pc = "reboot"
    /\ pc' = "rebootWait"
    /\ inProgress' = inProgress \cup {"uCellPwrReboot"}
    /\ Called("uCellPwrReboot")
    /\ UNCHANGED <<onMyRat, x, g3gppPowerSavingSet, registered,
                   cbLog, latchSetAt, assertFailed, request, returns>>

RebootReturn ==
    /\ pc = "rebootWait"
    /\ pc' = "networkUp"
    /\ inProgress' = inProgress \ {"uCellPwrReboot"}
    /\ UNCHANGED <<onMyRat, x, g3gppPowerSavingSet, registered, calls,
                   cbLog, latchSetAt, assertFailed, request, returns>>

(* if (uNetworkUp(networkHandle) == 0) ... else                            *)
(* uPortLog("### Unable to bring up the network!\n")                       *)
NetworkUpCall ==
    /\ pc = "networkUp"
    /\ pc' = "networkUpWait"
    /\ inProgress' = inProgress \cup {"uNetworkUp"}
    /\ Called("uNetworkUp")
    /\ UNCHANGED <<onMyRat, x, g3gppPowerSavingSet, registered,
                   cbLog, latchSetAt, assertFailed, request, returns>>

UpSucceededAlways(result) == TRUE

UpSucceeded(result) == result = 0

NetworkUpReturn ==
    /\ pc = "networkUpWait"
    /\ inProgress' = inProgress \ {"uNetworkUp"}
    /\ \E result \in {0} \cup ErrorCodes :
          /\ Returned(IF result = 0 THEN "uNetworkUp:0" ELSE "uNetworkUp:error")
          /\ IF UpSucceeded(result)
             THEN pc' = "waitLoop" /\ UNCHANGED calls
             ELSE pc' = "deinit" /\ Called("uPortLog:UnableToBringUp")
    /\ UNCHANGED <<onMyRat, x, g3gppPowerSavingSet, registered,
                   cbLog, latchSetAt, assertFailed, request>>

(* while (!g3gppPowerSavingSet && (x < 30)) { uPortTaskBlock(1000); x++; } *)
WaitConditionInclusive(flag, count) == ~flag /\ count <= WaitLimit

WaitConditionCountOnly(flag, count) == count < WaitLimit

WaitCondition(flag, count) == ~flag /\ count < WaitLimit

WaitLoopTest ==
    /\ pc = "waitLoop"
    /\ IF WaitCondition(g3gppPowerSavingSet, x)
       THEN /\ pc' = "taskBlock"
            /\ inProgress' = inProgress \cup {"uPortTaskBlock"}
            /\ Called("uPortTaskBlock")
       ELSE /\ pc' = "report"
            /\ UNCHANGED <<inProgress, calls, request, returns>>
    /\ UNCHANGED <<onMyRat, x, g3gppPowerSavingSet, registered,
                   cbLog, latchSetAt, assertFailed, request, returns>>

NextCount(count) == count + 1

TaskBlockReturn ==
    /\ pc = "taskBlock"
    /\ pc' = "waitLoop"
    /\ inProgress' = inProgress \ {"uPortTaskBlock"}
    /\ x' = NextCount(x)
    /\ UNCHANGED <<onMyRat, g3gppPowerSavingSet, registered, calls,
                   cbLog, latchSetAt, assertFailed, request, returns>>

(* if (g3gppPowerSavingSet) uPortLog("... have been agreed") else          *)
(* uPortLog("### Unable to switch 3GPP power saving on!\n")                *)
RetryOnTimeout(flag) == IF flag THEN "networkDown" ELSE "request"

AfterReport(flag) == "networkDown"

ReportOutcome ==
    /\ pc = "report"
    /\ pc' = AfterReport(g3gppPowerSavingSet)
    /\ IF g3gppPowerSavingSet
       THEN Called("uPortLog:Agreed")
       ELSE Called("uPortLog:UnableToSwitchOn")
    /\ UNCHANGED <<onMyRat, x, g3gppPowerSavingSet, registered, inProgress,
                   cbLog, latchSetAt, assertFailed, request, returns>>

(* uNetworkDown(networkHandle): the call, then its return *)
NetworkDownCallSkipped ==
    /\ pc = "networkDown"
    /\ pc' = "deinit"
    /\ UNCHANGED <<onMyRat, x, g3gppPowerSavingSet, registered, inProgress, calls,
                   cbLog, latchSetAt, assertFailed, request, returns>>

NetworkDownCall ==
    /\ pc = "networkDown"
    /\ pc' = "networkDownWait"
    /\ inProgress' = inProgress \cup {"uNetworkDown"}
    /\ Called("uNetworkDown")
    /\ UNCHANGED <<onMyRat, x, g3gppPowerSavingSet, registered,
                   cbLog, latchSetAt, assertFailed, request, returns>>

NetworkDownReturnSkipsTeardown ==
    /\ pc = "networkDownWait"
    /\ pc' = "done"
    /\ inProgress' = inProgress \ {"uNetworkDown"}
    /\ UNCHANGED <<onMyRat, x, g3gppPowerSavingSet, registered, calls,
                   cbLog, latchSetAt, assertFailed, request, returns>>

NetworkDownReturn ==
    /\ pc = "networkDownWait"
    /\ pc' = "deinit"
    /\ inProgress' = inProgress \ {"uNetworkDown"}
    /\ UNCHANGED <<onMyRat, x, g3gppPowerSavingSet, registered, calls,
                   cbLog, latchSetAt, assertFailed, request, returns>>

(* uNetworkDeinit(): removes the cellular instance, and with it the callback *)
NetworkDeinitSkippedAfterError ==
    /\ pc = "deinit"
    /\ pc' = "portDeinit"
    /\ registered' = FALSE
    /\ IF x = 0 /\ Count(calls, "uPortLog:UnableToBringUp") > 0
       THEN UNCHANGED calls
       ELSE Called("uNetworkDeinit")
    /\ UNCHANGED <<onMyRat, x, g3gppPowerSavingSet, inProgress,
                   cbLog, latchSetAt, assertFailed, request, returns>>

NetworkDeinitKeepsCallback ==
    /\ pc = "deinit"
    /\ pc' = "portDeinit"
    /\ Called("uNetworkDeinit")
    /\ UNCHANGED <<onMyRat, x, g3gppPowerSavingSet, registered, inProgress,
                   cbLog, latchSetAt, assertFailed, request, returns>>

NetworkDeinit ==
    /\ pc = "deinit"
    /\ pc' = "portDeinit"
    /\ registered' = FALSE
    /\ Called("uNetworkDeinit")
    /\ UNCHANGED <<onMyRat, x, g3gppPowerSavingSet, inProgress,
                   cbLog, latchSetAt, assertFailed, request, returns>>

(* uPortDeinit(); *)
PortDeinit ==
    /\ pc = "portDeinit"
    /\ pc' = "done"
    /\ Called("uPortDeinit")
    /\ UNCHANGED <<onMyRat, x, g3gppPowerSavingSet, registered, inProgress,
                   cbLog, latchSetAt, assertFailed, request, returns>>

(* uPortLog("### Done.\n"); *)
LogDone ==
    /\ pc = "done"
    /\ pc' = "finalState"
    /\ Called("uPortLog:Done")
    /\ UNCHANGED <<onMyRat, x, g3gppPowerSavingSet, registered, inProgress,
                   cbLog, latchSetAt, assertFailed, request, returns>>

(* #if defined(U_CFG_TEST_CELL_MODULE_TYPE) ... : a build without the test *)
(* block ends here; a test build evaluates                                 *)
(* EXAMPLE_FINAL_STATE((x < 0) || g3gppPowerSavingSet), which ends the     *)
(* test when it fails.                                                     *)
FinalStateExpr == (x < 0) \/ g3gppPowerSavingSet

FinalState ==
    /\ pc = "finalState"
    /\ \E testBuild \in BOOLEAN :
          IF ~testBuild
          THEN pc' = "end" /\ UNCHANGED assertFailed
          ELSE IF FinalStateExpr
               THEN pc' = "switchOffGuard" /\ UNCHANGED assertFailed
               ELSE pc' = "end" /\ assertFailed' = TRUE
    /\ UNCHANGED <<onMyRat, x, g3gppPowerSavingSet, registered, inProgress,
                   calls, cbLog, latchSetAt, request, returns>>

(* if (g3gppPowerSavingSet) { uPortInit(); uNetworkInit();                 *)
(*     networkHandle = uNetworkAdd(...);                                   *)
SwitchOffGuard ==
    /\ pc = "switchOffGuard"
    /\ IF g3gppPowerSavingSet
       THEN pc' = "switchOffRequest"
            /\ calls' = calls \o <<"uPortInit", "uNetworkInit", "uNetworkAdd">>
       ELSE pc' = "end" /\ UNCHANGED calls
    /\ UNCHANGED <<onMyRat, x, g3gppPowerSavingSet, registered, inProgress,
                   cbLog, latchSetAt, assertFailed, request, returns>>

(* uCellPwrSetRequested3gppPowerSaving(networkHandle, MY_RAT, false, -1, -1); *)
SwitchOffRequest ==
    /\ pc = "switchOffRequest"
    /\ pc' = "switchOffRebootIsRequired"
    /\ Called("uCellPwrSetRequested3gppPowerSaving")
    /\ UNCHANGED <<onMyRat, x, g3gppPowerSavingSet, registered, inProgress,
                   cbLog, latchSetAt, assertFailed, request, returns>>

(* if (uCellPwrRebootIsRequired(networkHandle)) *)
SwitchOffRebootIsRequired ==
    /\ pc = "switchOffRebootIsRequired"
    /\ \E required \in BOOLEAN :
          pc' = IF required THEN "switchOffReboot" ELSE "switchOffDeinit"
    /\ Called("uCellPwrRebootIsRequired")
    /\ UNCHANGED <<onMyRat, x, g3gppPowerSavingSet, registered, inProgress,
                   cbLog, latchSetAt, assertFailed, request, returns>>

(* uCellPwrReboot(networkHandle, NULL): the call, then its return *)
SwitchOffRebootCall ==
    /\ pc = "switchOffReboot"
    /\ pc' = "switchOffRebootWait"
    /\ inProgress' = inProgress \cup {"uCellPwrReboot"}
    /\ Called("uCellPwrReboot")
    /\ UNCHANGED <<onMyRat, x, g3gppPowerSavingSet, registered,
                   cbLog, latchSetAt, assertFailed, request, returns>>

SwitchOffRebootReturn ==
    /\ pc = "switchOffRebootWait"
    /\ pc' = "switchOffDeinit"
    /\ inProgress' = inProgress \ {"uCellPwrReboot"}
    /\ UNCHANGED <<onMyRat, x, g3gppPowerSavingSet, registered, calls,
                   cbLog, latchSetAt, assertFailed, request, returns>>

(* uNetworkDeinit(); uPortDeinit(); } *)
SwitchOffDeinit ==
    /\ pc = "switchOffDeinit"
    /\ pc' = "end"
    /\ Called2("uNetworkDeinit", "uPortDeinit")
    /\ UNCHANGED <<onMyRat, x, g3gppPowerSavingSet, registered, inProgress,
                   cbLog, latchSetAt, assertFailed, request, returns>>

MainTask ==
    \/ PortAndNetworkInit
    \/ NetworkAdd
    \/ SetCallback
    \/ GetRat
    \/ SetRatRank
    \/ CheckOnMyRat
    \/ RequestPowerSaving
    \/ RebootIsRequired
    \/ RebootCall
    \/ RebootReturn
    \/ NetworkUpCall
    \/ NetworkUpReturn
    \/ WaitLoopTest
    \/ TaskBlockReturn
    \/ ReportOutcome
    \/ NetworkDownCall
    \/ NetworkDownReturn
    \/ NetworkDeinit
    \/ PortDeinit
    \/ LogDone
    \/ FinalState
    \/ SwitchOffGuard
    \/ SwitchOffRequest
    \/ SwitchOffRebootIsRequired
    \/ SwitchOffRebootCall
    \/ SwitchOffRebootReturn
    \/ SwitchOffDeinit

Next == MainTask \/ CallbackFires

Spec == Init /\ [][Next]_vars

(* Every collaborator call returns and the main task keeps being scheduled. *)
FairSpec == Spec /\ WF_vars(MainTask)

(* The function is run again in the same program: its locals are           *)
(* initialised afresh (lines 195-197), the static g3gppPowerSavingSet keeps *)
(* the value the last run left (line 161 initialises it once, at load).     *)
(* The histories start again with the run.                                  *)
Rerun ==
    /\ pc = "end"
    /\ pc' = "init"
    /\ onMyRat' = TRUE
    /\ x' = -1
    /\ calls' = <<>>
    /\ cbLog' = {}
    /\ latchSetAt' = NotSet
    /\ assertFailed' = FALSE
    /\ returns' = {}
    /\ UNCHANGED <<g3gppPowerSavingSet, registered, inProgress, request>>

NextRerun == Next \/ Rerun

RerunSpec == Init /\ [][NextRerun]_vars

----------------------------------------------------------------------------
(* The session: the calls from uPortInit() up to uPortLog("### Done.\n"),   *)
(* line 269.  What follows it is the switch-off of the internal test build. *)

DoneIndex == First(calls, "uPortLog:Done")

SessionComplete == DoneIndex # 0

SessionCalls == IF SessionComplete THEN SubSeq(calls, 1, DoneIndex) ELSE calls

InSession(op) == Count(SessionCalls, op) > 0

(* The calls of the session that follow the first call of op. *)
SessionAfter(op) == SubSeq(SessionCalls, First(SessionCalls, op) + 1, Len(SessionCalls))

(* The step appends op to the call history. *)
Logged(op) == \E i \in (Len(calls) + 1)..Len(calls') : calls'[i] = op

IsPrefix(s, t) == Len(s) <= Len(t) /\ \A i \in DOMAIN s : s[i] = t[i]

(* s is t as far as the session has got, and all of t once it is complete. *)
Follows(s, t) == IsPrefix(s, t) /\ (SessionComplete => s = t)

Teardown == <<"uNetworkDeinit", "uPortDeinit", "uPortLog:Done">>

Outcome ==
    CASE InSession("uPortLog:UnableToSetPrimaryRat") -> "RatError"
      [] InSession("uPortLog:NotSupported") -> "Unsupported"
      [] InSession("uPortLog:UnableToBringUp") -> "NetworkBringUpError"
      [] InSession("uPortLog:Agreed") -> "Agreed"
      [] InSession("uPortLog:UnableToSwitchOn") -> "TimedOut"
      [] OTHER -> "None"

(* A report that meets the request: power saving on, both timers >= it. *)
Meets(r) ==
    /\ r.onNotOff = TRUE
    /\ ~(r.activeTimeSeconds < request.activeTimeSeconds)
    /\ ~(r.periodicWakeupSeconds < request.periodicWakeupSeconds)

(* The uNetworkDeinit() calls that release the handle added by calls[i]:    *)
(* those after it and before the next uNetworkAdd().                        *)
ReleasesOf(i) ==
    {j \in DOMAIN calls :
        /\ j > i
        /\ calls[j] = "uNetworkDeinit"
        /\ \A k \in (i + 1)..(j - 1) : calls[k] # "uNetworkAdd"}

(* C1: in every complete session, whichever branch it took, teardown is     *)
(* invoked exactly once: one uNetworkDeinit() followed by one uPortDeinit() *)
(* right before "Done", never two; and over the whole run every handle      *)
(* uNetworkAdd() returned is released by exactly one uNetworkDeinit().      *)
C1_TeardownExactlyOnce ==
    /\ Count(SessionCalls, "uNetworkDeinit") <= 1
    /\ Count(SessionCalls, "uPortDeinit") <= 1
    /\ SessionComplete =>
          /\ Outcome \in {"RatError", "Unsupported", "NetworkBringUpError",
                          "Agreed", "TimedOut"}
          /\ Count(SessionCalls, "uNetworkDeinit") = 1
          /\ Count(SessionCalls, "uPortDeinit") = 1
          /\ SubSeq(SessionCalls, DoneIndex - 2, DoneIndex) = Teardown
    /\ pc = "end" =>
          \A i \in DOMAIN calls :
              calls[i] = "uNetworkAdd" => Cardinality(ReleasesOf(i)) = 1

C1_Witness ==
    /\ pc = "end"
    /\ Outcome = "NetworkBringUpError"
    /\ Count(calls, "uNetworkDeinit") = 1

(* C2: if uCellCfgSetRatRank() fails, the power-saving request is never     *)
(* invoked in the session: the failure is reported and teardown follows.    *)
C2_NoRequestAfterRatFailure ==
    "uCellCfgSetRatRank:error" \in returns =>
        /\ ~InSession("uCellPwrSetRequested3gppPowerSaving")
        /\ Follows(SessionAfter("uCellCfgSetRatRank"),
                   <<"uPortLog:UnableToSetPrimaryRat">> \o Teardown)

C2_Witness ==
    /\ "uCellCfgSetRatRank:error" \in returns
    /\ SessionComplete
    /\ Outcome = "RatError"

(* C3, as claimed: the session ends Agreed if and only if the callback      *)
(* delivered a report with power saving on and both values >= the request.  *)
C3_AgreedIffQualifyingReport ==
    SessionComplete => (Outcome = "Agreed" <=> \E r \in cbLog : Meets(r))

(* C3, amended: the session ends Agreed if and only if it gets to read the  *)
(* latch after the wait (line 246) and a report that meets the request has  *)
(* been delivered by then; with no such report it never ends Agreed.        *)
C3_AgreedIffQualifyingReportByTheRead ==
    /\ [](Outcome = "Agreed" => \E r \in cbLog : Meets(r))
    /\ [][Logged("uPortLog:Agreed") => pc = "report"]_vars
    /\ [][(pc = "report" /\ pc' # "report") =>
             (Logged("uPortLog:Agreed") <=> \E r \in cbLog : Meets(r))]_vars

C3_Witness ==
    /\ SessionComplete
    /\ Outcome = "Agreed"
    /\ request = Requested(90, 16200)
    /\ cbLog = {Report(TRUE, 90, 14399), Report(TRUE, 90, 16200)}

(* C4: the latch is true if and only if some callback invocation so far had *)
(* power saving on and both timers >= the request; for the request          *)
(* (60, 14400) the reports (60, 14400) and (90, 16200) both set it, and a   *)
(* report with power saving off or a timer below the request does not.      *)
C4_LatchIffQualifyingReport ==
    /\ g3gppPowerSavingSet <=> \E r \in cbLog : Meets(r)
    /\ request = Requested(60, 14400) =>
          /\ Report(TRUE, 60, 14400) \in cbLog => g3gppPowerSavingSet
          /\ Report(TRUE, 90, 16200) \in cbLog => g3gppPowerSavingSet
          /\ cbLog \subseteq {Report(FALSE, 60, 14400), Report(FALSE, 90, 16200),
                              Report(TRUE, 59, 16200), Report(TRUE, 90, 14399)}
                => ~g3gppPowerSavingSet

C4_Witness ==
    /\ request = Requested(60, 14400)
    /\ cbLog = {Report(TRUE, 59, 16200), Report(TRUE, 60, 14400)}
    /\ g3gppPowerSavingSet

(* The wait loop is over: the session got to it and has left it. *)
WaitOver ==
    /\ "uNetworkUp:0" \in returns
    /\ WaitPhase \in {"afterWait", "afterReport"}

Reported == "uNetworkUp:0" \in returns /\ WaitPhase = "afterReport"

SuspendCycles == Count(calls, "uPortTaskBlock")

(* C5: the wait never suspends more than 30 times; if the latch has not     *)
(* become true by the end of the wait it has suspended exactly 30 times,    *)
(* and if it has not by the read that follows, the outcome is TimedOut,     *)
(* reported as "Unable to switch 3GPP power saving on".                     *)
C5_TimedOutAfterThirtyCycles ==
    /\ SuspendCycles <= WaitLimit
    /\ (WaitOver /\ latchSetAt.phase \notin {"before", "wait"}) =>
          SuspendCycles = WaitLimit /\ x = WaitLimit
    /\ (Reported /\ latchSetAt.phase \in {"never", "afterReport"}) =>
          /\ Outcome = "TimedOut"
          /\ InSession("uPortLog:UnableToSwitchOn")
          /\ ~InSession("uPortLog:Agreed")

C5_Witness ==
    /\ pc = "end"
    /\ ~g3gppPowerSavingSet
    /\ SuspendCycles = 30
    /\ Outcome = "TimedOut"

(* C6: if the latch first becomes true during the k-th suspend cycle of the *)
(* wait (k = 0: before the wait starts), k is in 0..30, the wait performs   *)
(* exactly k suspend cycles and the outcome is Agreed.                      *)
C6_AgreedAfterKCycles ==
    (WaitOver /\ latchSetAt.phase \in {"before", "wait"}) =>
        /\ latchSetAt.cycle \in 0..WaitLimit
        /\ SuspendCycles = latchSetAt.cycle
        /\ x = latchSetAt.cycle
        /\ Reported => Outcome = "Agreed"

C6_Witness ==
    /\ Reported
    /\ latchSetAt.phase = "wait"
    /\ latchSetAt.cycle = 5
    /\ SuspendCycles = 5
    /\ Outcome = "Agreed"

(* C7: if uNetworkUp() fails, the session reports it, never suspends in the *)
(* wait, makes no agreed/unable report, never calls uNetworkDown(), and     *)
(* goes on to uNetworkDeinit() and uPortDeinit().                           *)
C7_BringUpFailureSkipsWait ==
    "uNetworkUp:error" \in returns =>
        /\ Count(calls, "uPortTaskBlock") = 0
        /\ Count(calls, "uPortLog:Agreed") = 0
        /\ Count(calls, "uPortLog:UnableToSwitchOn") = 0
        /\ Count(calls, "uNetworkDown") = 0
        /\ Follows(SessionAfter("uNetworkUp"),
                   <<"uPortLog:UnableToBringUp">> \o Teardown)

C7_Witness ==
    /\ "uNetworkUp:error" \in returns
    /\ SessionComplete
    /\ Outcome = "NetworkBringUpError"
    /\ ~registered

(* C8: if the power-saving request returns an error, the session reports    *)
(* it, invokes none of uCellPwrRebootIsRequired(), uCellPwrReboot(),        *)
(* uNetworkUp(), uPortTaskBlock() or uNetworkDown(), and goes to teardown.  *)
C8_UnsupportedGoesToTeardown ==
    "uCellPwrSetRequested3gppPowerSaving:error" \in returns =>
        /\ x < 0
        /\ ~InSession("uCellPwrRebootIsRequired")
        /\ ~InSession("uCellPwrReboot")
        /\ ~InSession("uNetworkUp")
        /\ ~InSession("uPortTaskBlock")
        /\ ~InSession("uNetworkDown")
        /\ Follows(SessionAfter("uCellPwrSetRequested3gppPowerSaving"),
                   <<"uPortLog:NotSupported">> \o Teardown)

C8_Witness ==
    /\ "uCellPwrSetRequested3gppPowerSaving:error" \in returns
    /\ SessionComplete
    /\ Outcome = "Unsupported"

(* C9: with the main task scheduled fairly, every session reaches teardown  *)
(* and "Done" and the function ends, whatever the callback does; the        *)
(* request and the bring-up are each invoked at most once in the session,   *)
(* and after a timeout teardown follows, with no retry.                     *)
C9_TerminatesWithoutRetry ==
    /\ <>(SessionComplete /\ pc = "end")
    /\ [](Count(SessionCalls, "uCellPwrSetRequested3gppPowerSaving") <= 1)
    /\ [](Count(SessionCalls, "uNetworkUp") <= 1)
    /\ [](InSession("uPortLog:UnableToSwitchOn") =>
             Follows(SessionAfter("uPortLog:UnableToSwitchOn"),
                     <<"uNetworkDown">> \o Teardown))

C9_Witness ==
    /\ pc = "end"
    /\ Outcome = "TimedOut"
    /\ Cardinality(cbLog) >= 2
    /\ Count(SessionCalls, "uCellPwrSetRequested3gppPowerSaving") = 1
    /\ Count(SessionCalls, "uNetworkUp") = 1

(* C10: at most one collaborator call is outstanding on the handle at any   *)
(* time, so uCellPwrReboot(), uNetworkUp() and uNetworkDown() each run      *)
(* alone; the main task makes a call only when none is outstanding, and a   *)
(* callback invocation, also one during such a call, makes no call.         *)
ExclusiveCalls == {"uCellPwrReboot", "uNetworkUp", "uNetworkDown"}

LogReports ==
    {"uPortLog:UnableToSetPrimaryRat", "uPortLog:NotSupported",
     "uPortLog:UnableToBringUp", "uPortLog:Agreed", "uPortLog:UnableToSwitchOn",
     "uPortLog:Done"}

(* The step makes a collaborator call (uPortLog() is not one). *)
MakesCall == \E i \in (Len(calls) + 1)..Len(calls') : calls'[i] \notin LogReports

C10_ExclusiveHandleOperations ==
    /\ [](Cardinality(inProgress) <= 1)
    /\ [](inProgress \cap ExclusiveCalls # {} =>
             \E op \in ExclusiveCalls : inProgress = {op})
    /\ [][MakesCall => inProgress = {}]_vars
    /\ [][cbLog' # cbLog => (calls' = calls /\ inProgress' = inProgress)]_vars

C10_Witness ==
    /\ inProgress = {"uNetworkUp"}
    /\ g3gppPowerSavingSet
    /\ latchSetAt.during = {"uNetworkUp"}

(* C11: the agreement state is scoped to the session: every run of the     *)
(* function starts with the latch clear, and a run reports Agreed only if  *)
(* a report that meets the request was delivered during that run.          *)
C11_NoCrossSessionLeakage ==
    /\ pc = "init" => ~g3gppPowerSavingSet
    /\ Outcome = "Agreed" => \E r \in cbLog : Meets(r)

(* C12: at the end of every session the example's final-state assertion    *)
(* holds: the request was never accepted (x < 0) or the latch is true.     *)
C12_FinalStateAssertionHolds ==
    SessionComplete => ((x < 0) \/ g3gppPowerSavingSet) /\ ~assertFailed

(* The NegotiationState of the specification, read off the run: Idle until *)
(* the function starts, Closed once teardown is done, Agreed or TimedOut   *)
(* once the outcome of the wait is reported, AwaitingAgreement from the    *)
(* bring-up on, Unsupported once the request has failed, Configuring       *)
(* otherwise.                                                              *)
Has(op) == \E i \in DOMAIN calls : calls[i] = op

ClosedPcs ==
    {"done", "finalState", "switchOffGuard", "switchOffRequest",
     "switchOffRebootIsRequired", "switchOffReboot", "switchOffRebootWait",
     "switchOffDeinit", "end"}

NegotiationState ==
    IF pc = "init" THEN "Idle"
    ELSE IF pc \in ClosedPcs THEN "Closed"
    ELSE IF Has("uPortLog:Agreed") THEN "Agreed"
    ELSE IF Has("uPortLog:UnableToSwitchOn") THEN "TimedOut"
    ELSE IF Has("uNetworkUp") THEN "AwaitingAgreement"
    ELSE IF "uCellPwrSetRequested3gppPowerSaving:error" \in returns THEN "Unsupported"
    ELSE "Configuring"

MachineEdges ==
    {<<"Idle", "Configuring">>,
     <<"Configuring", "Unsupported">>,
     <<"Configuring", "AwaitingAgreement">>,
     <<"AwaitingAgreement", "Agreed">>,
     <<"AwaitingAgreement", "TimedOut">>}
    \cup {<<from, "Closed">> : from \in {"Configuring", "Unsupported",
                                         "AwaitingAgreement", "Agreed", "TimedOut"}}

(* C13: every run is a path of the specified machine: it starts Idle, each *)
(* change of state is an edge of the machine (so Agreed and TimedOut come  *)
(* only from AwaitingAgreement, and Closed from any state but Idle), a     *)
(* complete session is Closed, and teardown is the last collaborator       *)
(* operation of the session: only "Done" is logged after it.               *)
C13_RunsFollowTheStateMachine ==
    /\ NegotiationState = "Idle"
    /\ [][NegotiationState' = NegotiationState
          \/ <<NegotiationState, NegotiationState'>> \in MachineEdges]_vars
    /\ [](SessionComplete =>
             /\ NegotiationState = "Closed"
             /\ SubSeq(SessionCalls, DoneIndex - 2, DoneIndex) = Teardown)
    /\ [](NegotiationState = "Closed" =>
             /\ Count(SessionCalls, "uNetworkDeinit") = 1
             /\ Count(SessionCalls, "uPortDeinit") = 1
             /\ SessionCalls[First(SessionCalls, "uNetworkDeinit") + 1] = "uPortDeinit")

C13_Witness ==
    /\ pc = "end"
    /\ NegotiationState = "Closed"
    /\ Has("uPortLog:UnableToSwitchOn")
    /\ Has("uCellPwrReboot")

(* The calls of the session that follow the request start with s. *)
AfterRequestStartsWith(s) ==
    IsPrefix(s, SessionAfter("uCellPwrSetRequested3gppPowerSaving"))

(* C14: uCellPwrReboot() is invoked in a session if and only if the request *)
(* returned success and uCellPwrRebootIsRequired() then returned true; it   *)
(* is invoked at most once, right after that query, and has returned when   *)
(* uNetworkUp() is invoked; when no reboot is required uNetworkUp() follows *)
(* the query with no reboot in between.                                     *)
C14_RebootIffRequired ==
    /\ [](Count(SessionCalls, "uCellPwrReboot") <= 1)
    /\ [](InSession("uCellPwrReboot") =>
             /\ "uCellPwrSetRequested3gppPowerSaving:0" \in returns
             /\ "uCellPwrRebootIsRequired:true" \in returns
             /\ AfterRequestStartsWith(<<"uCellPwrRebootIsRequired", "uCellPwrReboot">>))
    /\ [](("uCellPwrRebootIsRequired:true" \in returns /\ pc # "reboot") =>
             InSession("uCellPwrReboot"))
    /\ [](("uCellPwrRebootIsRequired:true" \in returns /\ InSession("uNetworkUp")) =>
             AfterRequestStartsWith(<<"uCellPwrRebootIsRequired", "uCellPwrReboot",
                                      "uNetworkUp">>))
    /\ [](("uCellPwrRebootIsRequired:false" \in returns /\ pc # "networkUp") =>
             /\ ~InSession("uCellPwrReboot")
             /\ AfterRequestStartsWith(<<"uCellPwrRebootIsRequired", "uNetworkUp">>))
    /\ [][Logged("uNetworkUp") => "uCellPwrReboot" \notin inProgress]_vars

C14_Witness ==
    /\ "uCellPwrRebootIsRequired:true" \in returns
    /\ inProgress = {"uNetworkUp"}
    /\ Count(calls, "uCellPwrReboot") = 1

(* C15: uCellCfgSetRatRank() is called if and only if the RAT read at rank  *)
(* 0 differs from MY_RAT, and at most once; the session goes on to the      *)
(* power-saving request if and only if the RAT was MY_RAT already or the    *)
(* set returned success.                                                    *)
C15_RatSetOnlyWhenDifferent ==
    /\ Count(SessionCalls, "uCellCfgSetRatRank") <= 1
    /\ InSession("uCellCfgSetRatRank") => "uCellCfgGetRat:other" \in returns
    /\ "uCellCfgGetRat:MY_RAT" \in returns => ~InSession("uCellCfgSetRatRank")
    /\ ("uCellCfgGetRat:other" \in returns /\ pc # "setRatRank") =>
          InSession("uCellCfgSetRatRank")
    /\ InSession("uCellPwrSetRequested3gppPowerSaving") =>
          \/ "uCellCfgGetRat:MY_RAT" \in returns
          \/ "uCellCfgSetRatRank:0" \in returns
    /\ (/\ \/ "uCellCfgGetRat:MY_RAT" \in returns
           \/ "uCellCfgSetRatRank:0" \in returns
        /\ pc \notin {"checkRat", "request"}) =>
          InSession("uCellPwrSetRequested3gppPowerSaving")
    /\ "uCellCfgSetRatRank:error" \in returns => ~onMyRat

C15_Witness ==
    /\ "uCellCfgGetRat:MY_RAT" \in returns
    /\ ~InSession("uCellCfgSetRatRank")
    /\ InSession("uCellPwrSetRequested3gppPowerSaving")

(* The reports the step delivers to callback(). *)
Delivered == cbLog' \ cbLog

(* C16: the latch has one writer and only goes up: no step of the main     *)
(* task changes it, it changes only in a callback invocation whose report  *)
(* meets the request, and then to true; an invocation whose report does    *)
(* not meet the request leaves it as it is, also when it is already true.  *)
C16_LatchSingleWriterMonotonic ==
    /\ [][pc' # pc => g3gppPowerSavingSet' = g3gppPowerSavingSet]_vars
    /\ [][g3gppPowerSavingSet => g3gppPowerSavingSet']_vars
    /\ [][g3gppPowerSavingSet' # g3gppPowerSavingSet =>
             /\ g3gppPowerSavingSet'
             /\ \E r \in Delivered : Meets(r)]_vars
    /\ [][(Delivered # {} /\ \A r \in Delivered : ~Meets(r)) =>
             g3gppPowerSavingSet' = g3gppPowerSavingSet]_vars

C16_Witness ==
    /\ g3gppPowerSavingSet
    /\ request = Requested(60, 14400)
    /\ cbLog = {Report(TRUE, 60, 14400), Report(FALSE, 60, 14400)}
    /\ pc = "end"

(* C17: uNetworkDown() is invoked at most once, and exactly once by the    *)
(* time of teardown if uNetworkUp() returned success; it comes right after *)
(* the report that follows the wait loop and has returned before           *)
(* uNetworkDeinit(); it is never invoked when bring-up failed or was not   *)
(* attempted.                                                              *)
C17_NetworkDownIffUp ==
    /\ Count(calls, "uNetworkDown") <= 1
    /\ Has("uNetworkDown") =>
          /\ "uNetworkUp:0" \in returns
          /\ calls[First(calls, "uNetworkDown") - 1]
                \in {"uPortLog:Agreed", "uPortLog:UnableToSwitchOn"}
    /\ ("uNetworkUp:0" \in returns
        /\ pc \notin {"waitLoop", "taskBlock", "report", "networkDown"}) =>
          Count(calls, "uNetworkDown") = 1
    /\ ("uNetworkUp:0" \notin returns) => ~Has("uNetworkDown")
    /\ Has("uNetworkDeinit") =>
          /\ "uNetworkDown" \notin inProgress
          /\ Has("uNetworkDown") =>
                First(calls, "uNetworkDown") < First(calls, "uNetworkDeinit")
    /\ SessionComplete =>
          (Count(SessionCalls, "uNetworkDown") = 1 <=> "uNetworkUp:0" \in returns)

C17_Witness ==
    /\ SessionComplete
    /\ "uNetworkUp:0" \in returns
    /\ Count(calls, "uNetworkDown") = 1

(* C18: the callback is registered right after uNetworkAdd() and before    *)
(* the RAT is read or set, the request is made, the module is rebooted or  *)
(* the network is brought up, and stays registered until uNetworkDeinit(); *)
(* so a report that meets the request is recorded in the latch whenever it *)
(* arrives, also during reboot or bring-up, and if the latch is set before *)
(* the wait starts the wait suspends zero times and Agreed is reported.    *)
RegisteredPcs ==
    {"getRat", "setRatRank", "checkRat", "request", "rebootIsRequired", "reboot",
     "rebootWait", "networkUp", "networkUpWait", "waitLoop", "taskBlock",
     "report", "networkDown", "networkDownWait", "deinit"}

C18_CallbackRegisteredFirst ==
    /\ Has("uCellPwrSet3gppPowerSavingCallback") =>
          calls[First(calls, "uCellPwrSet3gppPowerSavingCallback") - 1] = "uNetworkAdd"
    /\ \A op \in {"uCellCfgGetRat", "uCellCfgSetRatRank",
                  "uCellPwrSetRequested3gppPowerSaving", "uCellPwrReboot",
                  "uNetworkUp"} :
          Has(op) =>
             /\ Has("uCellPwrSet3gppPowerSavingCallback")
             /\ First(calls, "uCellPwrSet3gppPowerSavingCallback") < First(calls, op)
    /\ pc \in RegisteredPcs => registered
    /\ (\E r \in cbLog : Meets(r)) => g3gppPowerSavingSet
    /\ (WaitOver /\ latchSetAt.phase = "before") =>
          /\ SuspendCycles = 0
          /\ Reported => Outcome = "Agreed"

C18_Witness ==
    /\ Reported
    /\ latchSetAt.phase = "before"
    /\ latchSetAt.during = {"uCellPwrReboot"}
    /\ SuspendCycles = 0
    /\ Outcome = "Agreed"

(* The two reads of the latch that follow "Done": the final-state check    *)
(* (line 273) and the switch-off guard (line 277).                         *)
AtLaterRead == pc \in {"finalState", "switchOffGuard"}

(* C19, as claimed: a session that reported "Unable to switch 3GPP power   *)
(* saving on" never reaches the final-state check or the switch-off guard  *)
(* with the latch true, and one that reported agreement reaches them with  *)
(* it true.                                                                *)
C19_ReportAgreesWithLaterReads ==
    AtLaterRead =>
        /\ Has("uPortLog:UnableToSwitchOn") => ~g3gppPowerSavingSet
        /\ Has("uPortLog:Agreed") => g3gppPowerSavingSet

(* C19, amended: a session that reported agreement reaches both reads with *)
(* the latch true; one that reported "Unable" reaches them with it true    *)
(* exactly when a report that meets the request arrived after the read of  *)
(* line 246 and before uNetworkDeinit(); the latch does not change once    *)
(* uNetworkDeinit() has removed the callback, so both reads see one value. *)
C19_LaterReadsSeeReportsUntilDeinit ==
    /\ [](AtLaterRead =>
             /\ Has("uPortLog:Agreed") => g3gppPowerSavingSet
             /\ Has("uPortLog:UnableToSwitchOn") =>
                   /\ g3gppPowerSavingSet <=> latchSetAt.phase = "afterReport"
                   /\ g3gppPowerSavingSet <=> \E r \in cbLog : Meets(r))
    /\ [](Has("uPortLog:UnableToSwitchOn") => latchSetAt.phase \in {"never", "afterReport"})
    /\ [][(pc \in ClosedPcs \cup {"portDeinit"}) =>
             (g3gppPowerSavingSet' = g3gppPowerSavingSet /\ cbLog' = cbLog)]_vars

C19_Witness ==
    /\ pc = "switchOffGuard"
    /\ Has("uPortLog:UnableToSwitchOn")
    /\ g3gppPowerSavingSet
    /\ latchSetAt.during = {"uNetworkDown"}

====
